---- MODULE Spec2Model ----
(***************************************************************************)
(* resume-mcp: the access-gating and tool-dispatch engine of src/index.ts  *)
(* as a state machine.  The state is the process-wide session map, the     *)
(* durable guestbook store and the requests in flight; one action per      *)
(* stretch of code between two suspension points (await) of fetch.         *)
(***************************************************************************)
EXTENDS Integers, Sequences, FiniteSets, TLC

VARIABLES
  sessionCache,  \* Map<string, SessionState>: key -> [hasAccess, agentToken]
  guestbook,     \* the KV namespace's entries, in the order they were put
  kvBound,       \* whether env.GUESTBOOK is bound in this deployment
  req,           \* slot -> the request being served in that slot
  delivered,     \* the HTTP response the last step sent, if it sent one
  history,       \* an observer's log of answered requests (SpecFlow, SpecRace)
  profileData    \* the contents of data/profile.json this deployment was built with

vars == <<sessionCache, guestbook, kvBound, req, delivered, history, profileData>>

(***************************************************************************)
(* Bounds of the model.                                                    *)
(***************************************************************************)
MaxBatch == 2       \* longest batch a request body holds
MaxGuestbook == 2   \* entries the store holds before requests stop coming
MaxHistory == 3     \* requests the observer's log follows
MaxProjects == 2    \* projects a profile store holds (SpecQuery)
MaxWriting == 2     \* writing entries a profile store holds (SpecQuery)
MaxLimit == 3       \* largest limit a get_writing call passes (SpecQuery)

(***************************************************************************)
(* The tool catalog and the two access tiers.                              *)
(***************************************************************************)
TOOLS ==
  << [name |-> "get_profile",    required |-> <<>>],
     [name |-> "get_projects",   required |-> <<>>],
     [name |-> "get_writing",    required |-> <<>>],
     [name |-> "get_experience", required |-> <<>>],
     [name |-> "get_skills",     required |-> <<>>],
     [name |-> "leave_message",  required |-> <<"name", "message">>] >>

FREE_TOOLS_Drop == <<"get_profile", "get_projects", "get_writing">>
FREE_TOOLS == <<"get_profile", "get_projects", "get_writing", "leave_message">>

GATED_TOOLS_One == <<"get_experience">>
GATED_TOOLS == <<"get_experience", "get_skills">>

\* Array.prototype.includes
Includes(arr, x) == \E i \in 1..Len(arr) : arr[i] = x

ToolNames == { TOOLS[i].name : i \in 1..Len(TOOLS) }

(***************************************************************************)
(* Profile data (data/profile.json): the store most deployments below are  *)
(* built with, and the entries the stores of SpecQuery are made of.        *)
(***************************************************************************)
DefaultProfile ==
  [ profile    |-> [name |-> "Owner"],
    projects   |-> << [name |-> "p1", tags |-> <<"ai", "rust">>, featured |-> TRUE],
                      [name |-> "p2", tags |-> <<"web">>, featured |-> FALSE] >>,
    writing    |-> << [title |-> "w1", platform |-> "blog"],
                      [title |-> "w2", platform |-> "dev"] >>,
    experience |-> << [company |-> "c1", current |-> TRUE],
                      [company |-> "c2", current |-> FALSE] >>,
    skills     |-> [languages |-> <<"ts">>, frameworks |-> <<"react">>] ]

ProjectPool ==
  { [name |-> "p1", tags |-> <<"ai", "web">>, featured |-> TRUE],
    [name |-> "p2", tags |-> <<"AI">>, featured |-> FALSE],
    [name |-> "p3", tags |-> <<"web">>, featured |-> FALSE] }

WritingPool ==
  { [title |-> "w1", platform |-> "blog"],
    [title |-> "w2", platform |-> "dev"],
    [title |-> "w3", platform |-> "blog"] }

\* the arrays of up to n entries of S
SeqsUpTo(S, n) == UNION { [1..k -> S] : k \in 0..n }

ProfileStores ==
  { [DefaultProfile EXCEPT !.projects = ps, !.writing = ws] :
      ps \in SeqsUpTo(ProjectPool, MaxProjects),
      ws \in SeqsUpTo(WritingPool, MaxWriting) }

\* Array.prototype.filter is SelectSeq: it keeps the order of the array

Has(params, f) == f \in DOMAIN params

getProfile == profileData.profile

getExperience(params) ==
  IF Has(params, "current_only") /\ params.current_only
    THEN LET cur(e) == e.current IN SelectSeq(profileData.experience, cur)
    ELSE profileData.experience

getSkills(params) ==
  IF Has(params, "category") /\ params.category \in DOMAIN profileData.skills
    THEN [c \in {params.category} |-> profileData.skills[c]]
    ELSE profileData.skills

(***************************************************************************)
(* Requests: the headers fetch reads, the credential, the body.            *)
(***************************************************************************)
\* CF-Connecting-IP and User-Agent; a User-Agent is its first 50 characters
\* (head) and the rest (tail)
Ua(head, tail) == [head |-> head, tail |-> tail]

Clients == { [ip |-> "ip1", ua |-> Ua("uaA", "")], [ip |-> "ip1", ua |-> Ua("uaB", "")] }

\* the callers of SpecKeys: the third differs from the first past the 50th
\* character of its User-Agent only
KeyClients == Clients \cup { [ip |-> "ip1", ua |-> Ua("uaA", "/2.0")] }

\* `${ip}:${ua.slice(0, 50)}`; the mutant leaves the User-Agent out
getSessionKey_IpOnly(client) == <<client.ip, "">>
getSessionKey(client) == <<client.ip, client.ua.head>>

\* The Agent-Token header: absent, or one of three token strings.
NoToken == "absent"
Tokens == {"tokIntent", "tokGarbled", "tokNoIntent"}

\* @agent-tokens/core, called at index.ts:493-494: decodeAgentTokenV0 throws on a
\* string that does not decode; getIntentV1 yields the intent or nothing.
decodeAgentTokenV0(token) ==
  IF token = "tokGarbled" THEN [threw |-> TRUE, intent |-> FALSE]
  ELSE [threw |-> FALSE, intent |-> (token = "tokIntent")]

getIntentV1(decoded) == decoded.intent

\* hashIP: salted SHA-256 of the address, first 8 bytes
hashIP(ip) == <<"sha256", ip, "resume-mcp-salt">>

(***************************************************************************)
(* JSON-RPC entries a body may hold (the id is given by the body).         *)
(***************************************************************************)
EmptyObj == [x \in {} |-> x]

Call(name, arguments) ==
  [method |-> "tools/call", name |-> name, arguments |-> arguments]

Method(m) == [method |-> m, name |-> "", arguments |-> EmptyObj]

RpcShapes ==
  << Call("get_experience", EmptyObj),
     Call("leave_message", [name |-> "Ada", message |-> "hi"]),
     Call("get_profile", EmptyObj),
     Call("no_such_tool", EmptyObj),
     Call("get_skills", EmptyObj),
     Call("leave_message", [name |-> "", message |-> "hi"]),
     Call("leave_message", [name |-> "Ada"]),
     Call("get_projects", EmptyObj),
     Call("get_writing", EmptyObj),
     Method("initialize"),
     Method("notifications/initialized"),
     Method("tools/list"),
     Method("ping"),
     Method("no/such/method"),
     Call("leave_message", [name |-> "Bob", message |-> "yo"]) >>

(***************************************************************************)
(* Tool executors that read the profile store.                             *)
(***************************************************************************)
\* String.prototype.toLowerCase on the strings the model uses
toLowerCase(str) ==
  CASE str = "AI" -> "ai"
    [] str = "Rust" -> "rust"
    [] str = "Web" -> "web"
    [] OTHER -> str

getProjects(params) ==
  LET byTag == IF Has(params, "tag") /\ params.tag # ""
                 THEN LET hasTag(p) == Includes(p.tags, toLowerCase(params.tag))
                      IN SelectSeq(profileData.projects, hasTag)
                 ELSE profileData.projects
      isFeatured(p) == p.featured
  IN IF Has(params, "featured_only") /\ params.featured_only
       THEN SelectSeq(byTag, isFeatured) ELSE byTag

\* the mutant slices before it filters by platform
getWriting_LimitFirst(params) ==
  LET cut == IF Has(params, "limit") /\ params.limit > 0
               THEN SubSeq(profileData.writing, 1,
                           IF params.limit < Len(profileData.writing) THEN params.limit
                           ELSE Len(profileData.writing))
               ELSE profileData.writing
      onPlatform(w) == w.platform = params.platform
  IN IF Has(params, "platform") /\ params.platform # ""
       THEN SelectSeq(cut, onPlatform) ELSE cut

getWriting(params) ==
  LET byPlatform == IF Has(params, "platform") /\ params.platform # ""
                      THEN LET onPlatform(w) == w.platform = params.platform
                           IN SelectSeq(profileData.writing, onPlatform)
                      ELSE profileData.writing
  IN IF Has(params, "limit") /\ params.limit > 0
       THEN SubSeq(byPlatform, 1,
                   IF params.limit < Len(byPlatform) THEN params.limit
                   ELSE Len(byPlatform))
       ELSE byPlatform

(***************************************************************************)
(* handleToolCall, up to its first suspension point.                       *)
(***************************************************************************)
HintText ==
  "Call leave_message() first to introduce yourself, or include an Agent-Token header."

\* index.ts:233, the access check; the mutants drop one half of it
AccessDenied_AnyGated(tool, session) == Includes(GATED_TOOLS, tool)
AccessDenied_Never(tool, session) == FALSE
AccessDenied(tool, session) ==
  Includes(GATED_TOOLS, tool) /\ ~session.hasAccess

\* the denial handleToolCall returns
DenialError(tool) ==
  [code |-> -32001, message |-> "Access required",
   data |-> [hint |-> HintText, gated_tool |-> tool, free_tools |-> FREE_TOOLS]]

UnknownToolError(tool) ==
  [code |-> -32601, message |-> <<"Unknown tool: ", tool>>]

\* What handleToolCall has done when it returns or first suspends: an error, a
\* result, or (leave_message) a call of leaveMessage that awaits hashIP.
\* exec names the executor it called, "none" when it called none.
handleToolCall(tool, params, session) ==
  IF AccessDenied(tool, session)
    THEN [kind |-> "error", exec |-> "none", error |-> DenialError(tool)]
  ELSE CASE tool = "get_profile" ->
              [kind |-> "result", exec |-> "getProfile", result |-> getProfile]
         [] tool = "get_projects" ->
              [kind |-> "result", exec |-> "getProjects", result |-> getProjects(params)]
         [] tool = "get_writing" ->
              [kind |-> "result", exec |-> "getWriting", result |-> getWriting(params)]
         [] tool = "get_experience" ->
              [kind |-> "result", exec |-> "getExperience", result |-> getExperience(params)]
         [] tool = "get_skills" ->
              [kind |-> "result", exec |-> "getSkills", result |-> getSkills(params)]
         [] tool = "leave_message" ->
              [kind |-> "await", exec |-> "leaveMessage"]
         [] OTHER ->
              [kind |-> "error", exec |-> "none", error |-> UnknownToolError(tool)]

(***************************************************************************)
(* handleJsonRpc: the response envelopes.                                  *)
(***************************************************************************)
ResultResponse_NoId(id, result) == [id |-> 0, tag |-> "result", result |-> result]
ResultResponse(id, result) == [id |-> id, tag |-> "result", result |-> result]
ErrorResponse(id, error) == [id |-> id, tag |-> "error", error |-> error]
NoResponse == [id |-> 0, tag |-> "none"]

\* index.ts:332-355: a tool error becomes a result with isError, its text the
\* error's data, or its message when it has no data
ToolCallResponse(id, toolResult) ==
  IF toolResult.kind = "error"
    THEN ResultResponse(id,
           [content |-> IF "data" \in DOMAIN toolResult.error
                          THEN toolResult.error.data
                          ELSE [message |-> toolResult.error.message],
            isError |-> TRUE])
    ELSE ResultResponse(id, [content |-> toolResult.result])

\* A task is one handleJsonRpc call of a request: st is "done" (it returned res),
\* "hash", "put", "ret" (suspended in leaveMessage at hashIP, at GUESTBOOK.put, or
\* returned from it and not yet resumed in handleToolCall) or "rejected" (it threw).
\* acc is session.hasAccess as the call read it, exec the executor it called,
\* puts the number of entries it has put into the guestbook store.
Task(rpc, st, acc, exec, res) ==
  [rpc |-> rpc, st |-> st, acc |-> acc, exec |-> exec, puts |-> 0, res |-> res]

\* handleJsonRpc up to its return or first suspension
handleJsonRpc(rpc, session) ==
  LET done(res) == Task(rpc, "done", session.hasAccess, "none", res)
  IN CASE rpc.method = "initialize" ->
            done(ResultResponse(rpc.id,
                   [protocolVersion |-> "2024-11-05",
                    serverInfo |-> [name |-> "resume-mcp", version |-> "1.0.0"]]))
       [] rpc.method = "notifications/initialized" ->
            done(ResultResponse(rpc.id, EmptyObj))
       [] rpc.method = "tools/list" ->
            done(ResultResponse(rpc.id, [tools |-> TOOLS]))
       [] rpc.method = "tools/call" ->
            LET tr == handleToolCall(rpc.name, rpc.arguments, session)
            IN IF tr.kind = "await"
                 THEN Task(rpc, "hash", session.hasAccess, tr.exec, NoResponse)
                 ELSE Task(rpc, "done", session.hasAccess, tr.exec,
                           ToolCallResponse(rpc.id, tr))
       [] rpc.method = "ping" ->
            done(ResultResponse(rpc.id, EmptyObj))
       [] OTHER ->
            done(ErrorResponse(rpc.id,
                   [code |-> -32601, message |-> <<"Method not found: ", rpc.method>>]))

(***************************************************************************)
(* The state of a request slot and of the response channel.                *)
(***************************************************************************)
Slots == {"r1", "r2"}

NullId == 0    \* JSON null in an id member; the ids of requests are 1, 2, ...

NoClient == [ip |-> "", ua |-> Ua("", "")]

\* pc: "idle" (no request), "json" (fetch awaits request.json(), index.ts:514),
\* "run" (the entries were dispatched; some are suspended); body: what
\* request.json() did, "none" while it is awaited, then "threw" or "parsed";
\* route: "mcp" (POST /) or "rest" (POST /api/guestbook, whose pc is "restjson"
\* while it awaits request.json() and "rest" while leaveMessage runs)
Idle ==
  [pc |-> "idle", route |-> "mcp", client |-> NoClient, token |-> NoToken,
   body |-> "none", batch |-> FALSE, tasks |-> <<>>, responded |-> FALSE]

NoDelivery == [sent |-> FALSE]

\* new Response(JSON.stringify(...)): status, and the responses it carries (one
\* for a single request, in a list for a batch); tasks are the calls behind them
Delivery(cur, status, tasks, out) ==
  [sent |-> TRUE, route |-> cur.route, client |-> cur.client, token |-> cur.token,
   status |-> status, body |-> cur.body, batch |-> cur.batch, tasks |-> tasks,
   out |-> out]

ParseError_InvalidRequest ==
  ErrorResponse(NullId, [code |-> -32600, message |-> "Invalid Request"])
ParseError == ErrorResponse(NullId, [code |-> -32700, message |-> "Parse error"])

Suspended(task) == task.st \in {"hash", "put", "ret"}
Pending(tasks) == \E i \in 1..Len(tasks) : Suspended(tasks[i])
Rejected_OnToolError(tasks) ==
  \E i \in 1..Len(tasks) :
    \/ tasks[i].st = "rejected"
    \/ tasks[i].st = "done" /\ tasks[i].res.tag = "result"
         /\ "isError" \in DOMAIN tasks[i].res.result
Rejected(tasks) == \E i \in 1..Len(tasks) : tasks[i].st = "rejected"
AllDone(tasks) == \A i \in 1..Len(tasks) : tasks[i].st = "done"

\* Promise.all over the entries (index.ts:518), or the single await (527), and the
\* catch of index.ts:532: the request is answered when every call has returned,
\* or as soon as one has thrown; calls still suspended then run on.
Answers(cur, tasks) == ~cur.responded /\ (Rejected(tasks) \/ AllDone(tasks))

Answer(cur, tasks) ==
  IF Rejected(tasks) THEN Delivery(cur, 400, tasks, <<ParseError>>)
  ELSE Delivery(cur, 200, tasks, [i \in 1..Len(tasks) |-> tasks[i].res])

Settle(r, cur, tasks) ==
  /\ req' = [req EXCEPT ![r] =
               IF (cur.responded \/ Answers(cur, tasks)) /\ ~Pending(tasks)
                 THEN Idle
                 ELSE [cur EXCEPT !.pc = "run", !.tasks = tasks,
                                  !.responded = cur.responded \/ Answers(cur, tasks)]]
  /\ delivered' = IF Answers(cur, tasks) THEN Answer(cur, tasks) ELSE NoDelivery

(***************************************************************************)
(* fetch, POST /: session lookup and credential (index.ts:479-512).        *)
(***************************************************************************)
NewSession == [hasAccess |-> FALSE, agentToken |-> NoToken]

\* index.ts:484-488 returns the session stored under the key, creating it if absent
GetOrCreate_Reset(cache, key) == NewSession
GetOrCreate_Granted(cache, key) ==
  IF key \in DOMAIN cache THEN cache[key] ELSE [hasAccess |-> TRUE, agentToken |-> NoToken]
GetOrCreate(cache, key) ==
  IF key \in DOMAIN cache THEN cache[key] ELSE NewSession

\* index.ts:491-496: the header is present, decodes, and holds an intent
TokenGrants_Any(token) == token # NoToken
TokenGrants_Never(token) == FALSE
TokenGrants(token) ==
  /\ token # NoToken
  /\ ~decodeAgentTokenV0(token).threw
  /\ getIntentV1(decodeAgentTokenV0(token))

FetchBegin(r, client, token) ==
  /\ req[r].pc = "idle"
  /\ LET key == getSessionKey(client)
         session == GetOrCreate(sessionCache, key)
     IN sessionCache' =
          (key :> (IF TokenGrants(token)
                     THEN [hasAccess |-> TRUE, agentToken |-> token]
                     ELSE session)) @@ sessionCache
  /\ req' = [req EXCEPT ![r] = [Idle EXCEPT !.pc = "json", !.client = client,
                                            !.token = token]]
  /\ delivered' = NoDelivery
  /\ UNCHANGED <<guestbook, kvBound, profileData>>

(***************************************************************************)
(* fetch, POST /: the body (index.ts:514-544).                             *)
(***************************************************************************)
IsLeave(rpc) == rpc.method = "tools/call" /\ rpc.name = "leave_message"

LeaveCount(body) == Cardinality({i \in 1..Len(body) : IsLeave(body[i])})

\* puts that requests in flight may still make
PutsAhead ==
  Cardinality({<<r, i>> \in Slots \X (1..(MaxBatch + 1)) :
                 /\ i <= Len(req[r].tasks)
                 /\ req[r].tasks[i].st \in {"hash", "put"}})

\* request.json() throws: the catch answers 400 and nothing was dispatched;
\* the mutant also forgets the credential's grant
BodyMalformed_DropsGrant(r) ==
  /\ req[r].pc = "json"
  /\ req' = [req EXCEPT ![r] = Idle]
  /\ delivered' = Delivery([req[r] EXCEPT !.body = "threw"], 400, <<>>, <<ParseError>>)
  /\ sessionCache' = [sessionCache EXCEPT
                        ![getSessionKey(req[r].client)] = NewSession]
  /\ UNCHANGED <<guestbook, kvBound, profileData>>

BodyMalformed(r) ==
  /\ req[r].pc = "json"
  /\ req' = [req EXCEPT ![r] = Idle]
  /\ delivered' = Delivery([req[r] EXCEPT !.body = "threw"], 400, <<>>, <<ParseError>>)
  /\ UNCHANGED <<sessionCache, guestbook, kvBound, profileData>>

\* request.json() yields one entry (batch = FALSE) or an array of them; each is
\* handed to handleJsonRpc in order, which runs to its first suspension
\* the mutant runs the entries one after the other: an entry that follows a
\* leave_message sees the access it granted
BodyParsed_GrantEarly(r, batch, body) ==
  /\ req[r].pc = "json"
  /\ Len(guestbook) + PutsAhead + LeaveCount(body) <= MaxGuestbook
  /\ LET session == sessionCache[getSessionKey(req[r].client)]
         seen(i) == IF \E j \in 1..(i - 1) : IsLeave(body[j])
                      THEN [session EXCEPT !.hasAccess = TRUE] ELSE session
         tasks == [i \in 1..Len(body) |-> handleJsonRpc(body[i], seen(i))]
     IN Settle(r, [req[r] EXCEPT !.body = "parsed", !.batch = batch], tasks)
  /\ UNCHANGED <<sessionCache, guestbook, kvBound, profileData>>

BodyParsed(r, batch, body) ==
  /\ req[r].pc = "json"
  /\ Len(guestbook) + PutsAhead + LeaveCount(body) <= MaxGuestbook
  /\ LET session == sessionCache[getSessionKey(req[r].client)]
         tasks == [i \in 1..Len(body) |-> handleJsonRpc(body[i], session)]
     IN Settle(r, [req[r] EXCEPT !.body = "parsed", !.batch = batch], tasks)
  /\ UNCHANGED <<sessionCache, guestbook, kvBound, profileData>>

(***************************************************************************)
(* leaveMessage and the rest of handleToolCall's leave_message case.       *)
(***************************************************************************)
Field(params, f) == IF Has(params, f) THEN params[f] ELSE "undefined"

\* index.ts:188-195 (the timestamp is left out)
GuestbookEntry(params, ip) ==
  [name |-> Field(params, "name"), message |-> Field(params, "message"),
   ip_hash |-> hashIP(ip)]

\* index.ts:208-212
LeaveResult(params) ==
  [success |-> TRUE, access_granted |-> TRUE,
   message |-> <<"Thanks, ", Field(params, "name")>>]

\* index.ts:200: the key holds a fresh UUID, so a put never overwrites an entry
KvPut_Overwrite(store, entry) == <<entry>>
KvPut_Dedup(store, entry) ==
  IF \E i \in 1..Len(store) : store[i] = entry THEN store ELSE Append(store, entry)
KvPut(store, entry) == Append(store, entry)

\* index.ts:272
Grant_Noop(session) == session
Grant(session) == [session EXCEPT !.hasAccess = TRUE]

SetTask(r, i, st, res) ==
  [req[r].tasks EXCEPT ![i] = [@ EXCEPT !.st = st, !.res = res]]

\* the mutant grants access before the put, when hashIP resolves
HashDone_GrantEarly(r, i) ==
  /\ req[r].pc = "run" /\ i \in 1..Len(req[r].tasks)
  /\ req[r].tasks[i].st = "hash"
  /\ Settle(r, req[r], SetTask(r, i, IF kvBound THEN "put" ELSE "ret", NoResponse))
  /\ sessionCache' = [sessionCache EXCEPT ![getSessionKey(req[r].client)].hasAccess = TRUE]
  /\ UNCHANGED <<guestbook, kvBound, profileData>>

\* hashIP resolves; leaveMessage goes on to the put, or past it when no KV is bound
HashDone(r, i) ==
  /\ req[r].pc = "run" /\ i \in 1..Len(req[r].tasks)
  /\ req[r].tasks[i].st = "hash"
  /\ Settle(r, req[r], SetTask(r, i, IF kvBound THEN "put" ELSE "ret", NoResponse))
  /\ UNCHANGED <<sessionCache, guestbook, kvBound, profileData>>

\* GUESTBOOK.put resolves: the entry is stored, leaveMessage returns
PutDone(r, i) ==
  /\ req[r].pc = "run" /\ i \in 1..Len(req[r].tasks)
  /\ req[r].tasks[i].st = "put"
  /\ guestbook' = KvPut(guestbook,
                     GuestbookEntry(req[r].tasks[i].rpc.arguments, req[r].client.ip))
  /\ Settle(r, req[r], [SetTask(r, i, "ret", NoResponse) EXCEPT ![i].puts = @ + 1])
  /\ UNCHANGED <<sessionCache, kvBound, profileData>>

\* GUESTBOOK.put rejects: leaveMessage, handleToolCall and handleJsonRpc throw
PutFail(r, i) ==
  /\ req[r].pc = "run" /\ i \in 1..Len(req[r].tasks)
  /\ req[r].tasks[i].st = "put"
  /\ Settle(r, req[r], SetTask(r, i, "rejected", NoResponse))
  /\ UNCHANGED <<sessionCache, guestbook, kvBound, profileData>>

\* handleToolCall resumes after leaveMessage: it grants access and returns
Resume(r, i) ==
  /\ req[r].pc = "run" /\ i \in 1..Len(req[r].tasks)
  /\ req[r].tasks[i].st = "ret"
  /\ LET key == getSessionKey(req[r].client)
         rpc == req[r].tasks[i].rpc
     IN /\ sessionCache' = [sessionCache EXCEPT ![key] = Grant(@)]
        /\ Settle(r, req[r],
                  SetTask(r, i, "done",
                          ToolCallResponse(rpc.id,
                            [kind |-> "result", result |-> LeaveResult(rpc.arguments)])))
  /\ UNCHANGED <<guestbook, kvBound, profileData>>

(***************************************************************************)
(* fetch, POST /api/guestbook: the direct submission (index.ts:451-474).   *)
(* It reads no header but the address and never touches sessionCache.      *)
(***************************************************************************)
RestResponse(payload) == [id |-> NullId, tag |-> "rest", result |-> payload]

RestRequired == RestResponse([success |-> FALSE, error |-> "Name and message are required"])
RestInvalid == RestResponse([success |-> FALSE, error |-> "Invalid request"])

\* the JSON bodies a direct submission may carry
RestBodies ==
  { [name |-> "Ada", message |-> "hi"], [name |-> "", message |-> "hi"],
    [name |-> "Ada"] }

\* !body.name || !body.message
RestIncomplete(body) ==
  \/ ~Has(body, "name") \/ body.name = ""
  \/ ~Has(body, "message") \/ body.message = ""

RestCall(body) ==
  [id |-> NullId, method |-> "POST /api/guestbook", name |-> "",
   arguments |-> [name |-> body.name, message |-> body.message]]

RestBegin(r, client) ==
  /\ req[r].pc = "idle"
  /\ req' = [req EXCEPT ![r] = [Idle EXCEPT !.pc = "restjson", !.route = "rest",
                                            !.client = client]]
  /\ delivered' = NoDelivery
  /\ UNCHANGED <<sessionCache, guestbook, kvBound, profileData>>

\* request.json() throws: the catch answers 400
RestBodyMalformed(r) ==
  /\ req[r].pc = "restjson"
  /\ req' = [req EXCEPT ![r] = Idle]
  /\ delivered' = Delivery([req[r] EXCEPT !.body = "threw"], 400, <<>>, <<RestInvalid>>)
  /\ UNCHANGED <<sessionCache, guestbook, kvBound, profileData>>

\* the body is checked; leaveMessage is called and suspends at hashIP
RestBody(r, body) ==
  /\ req[r].pc = "restjson"
  /\ Len(guestbook) + PutsAhead + 1 <= MaxGuestbook
  /\ LET cur == [req[r] EXCEPT !.body = "parsed"]
     IN IF RestIncomplete(body)
          THEN /\ req' = [req EXCEPT ![r] = Idle]
               /\ delivered' = Delivery(cur, 400, <<>>, <<RestRequired>>)
          ELSE /\ req' = [req EXCEPT ![r] =
                            [cur EXCEPT !.pc = "rest",
                               !.tasks = <<Task(RestCall(body), "hash", FALSE,
                                                "leaveMessage", NoResponse)>>]]
               /\ delivered' = NoDelivery
  /\ UNCHANGED <<sessionCache, guestbook, kvBound, profileData>>

\* leaveMessage has returned: the handler answers with its result
RestAnswer(r, tasks) ==
  /\ req' = [req EXCEPT ![r] = Idle]
  /\ delivered' = Delivery(req[r], 200, tasks,
                           <<RestResponse(LeaveResult(tasks[1].rpc.arguments))>>)

\* hashIP resolves: on to the put, or to the answer when no KV is bound
RestHashDone(r) ==
  /\ req[r].pc = "rest" /\ req[r].tasks[1].st = "hash"
  /\ IF kvBound
       THEN /\ req' = [req EXCEPT ![r].tasks = SetTask(r, 1, "put", NoResponse)]
            /\ delivered' = NoDelivery
       ELSE RestAnswer(r, SetTask(r, 1, "done", NoResponse))
  /\ UNCHANGED <<sessionCache, guestbook, kvBound, profileData>>

\* the mutant grants access to the submitter's session, as the tool call does
RestPutDone_Grants(r) ==
  /\ req[r].pc = "rest" /\ req[r].tasks[1].st = "put"
  /\ guestbook' = KvPut(guestbook,
                     GuestbookEntry(req[r].tasks[1].rpc.arguments, req[r].client.ip))
  /\ RestAnswer(r, [SetTask(r, 1, "done", NoResponse) EXCEPT ![1].puts = @ + 1])
  /\ sessionCache' = (getSessionKey(req[r].client) :>
                        [hasAccess |-> TRUE, agentToken |-> NoToken]) @@ sessionCache
  /\ UNCHANGED <<kvBound, profileData>>

\* GUESTBOOK.put resolves: the entry is stored, the handler answers
RestPutDone(r) ==
  /\ req[r].pc = "rest" /\ req[r].tasks[1].st = "put"
  /\ guestbook' = KvPut(guestbook,
                     GuestbookEntry(req[r].tasks[1].rpc.arguments, req[r].client.ip))
  /\ RestAnswer(r, [SetTask(r, 1, "done", NoResponse) EXCEPT ![1].puts = @ + 1])
  /\ UNCHANGED <<sessionCache, kvBound, profileData>>

\* GUESTBOOK.put rejects: the catch answers 400
RestPutFail(r) ==
  /\ req[r].pc = "rest" /\ req[r].tasks[1].st = "put"
  /\ req' = [req EXCEPT ![r] = Idle]
  /\ delivered' = Delivery(req[r], 400, SetTask(r, 1, "rejected", NoResponse),
                           <<RestInvalid>>)
  /\ UNCHANGED <<sessionCache, guestbook, kvBound, profileData>>

(***************************************************************************)
(* Specifications.                                                         *)
(***************************************************************************)
Init ==
  /\ sessionCache = EmptyObj
  /\ guestbook = <<>>
  /\ kvBound \in BOOLEAN
  /\ req = [r \in Slots |-> Idle]
  /\ delivered = NoDelivery
  /\ history = <<>>
  /\ profileData = DefaultProfile

\* the body whose i-th entry has the shape ix[i]; ids count up, or down
MkBody(ix, desc) ==
  [i \in 1..Len(ix) |->
     [id |-> IF desc THEN Len(ix) + 1 - i ELSE i,
      method |-> RpcShapes[ix[i]].method,
      name |-> RpcShapes[ix[i]].name,
      arguments |-> RpcShapes[ix[i]].arguments]]

\* The observer of SpecFlow logs each answer as it is sent, MaxHistory of them
Observe(flow) ==
  /\ flow => Len(history) < MaxHistory
  /\ history' = IF flow /\ delivered'.sent THEN Append(history, delivered')
                ELSE history

\* Requests in the slots `slots`, with a credential of `tokens`, whose body is
\* malformed, one entry shaped as one of `singles`, or a batch of up to MaxBatch
\* entries shaped as `batched`
Step(slots, tokens, singles, batched, flow) ==
  \E r \in slots :
    \/ \E c \in Clients, t \in tokens : FetchBegin(r, c, t) /\ Observe(flow)
    \/ BodyMalformed(r) /\ Observe(flow)
    \/ \E s \in singles : BodyParsed(r, FALSE, MkBody(<<s>>, FALSE)) /\ Observe(flow)
    \/ \E n \in 0..MaxBatch : \E ix \in [1..n -> batched] : \E desc \in BOOLEAN :
         BodyParsed(r, TRUE, MkBody(ix, desc)) /\ Observe(flow)
    \/ \E i \in 1..MaxBatch : HashDone(r, i) /\ Observe(flow)
    \/ \E i \in 1..MaxBatch : PutDone(r, i) /\ Observe(flow)
    \/ \E i \in 1..MaxBatch : PutFail(r, i) /\ Observe(flow)
    \/ \E i \in 1..MaxBatch : Resume(r, i) /\ Observe(flow)

AllTokens == Tokens \cup {NoToken}
AllShapes == 1..Len(RpcShapes)

\* Requests served one at a time (the entries of a batch run concurrently)
Next == Step({"r1"}, AllTokens, AllShapes, {1, 2, 3, 4}, FALSE)

Spec == Init /\ [][Next]_vars

\* Two requests in flight at once, each a single tools/call
NextConc == Step(Slots, AllTokens, {1, 2}, {}, FALSE)

SpecConc == Init /\ [][NextConc]_vars

\* Single requests one after another, each answer logged by an observer
NextFlow == Step({"r1"}, {NoToken, "tokGarbled"}, {1, 2, 15}, {}, TRUE)

SpecFlow == Init /\ [][NextFlow]_vars

\* Two requests in flight at once, each a single leave_message call without
\* credential, each answer logged
NextRace ==
  \E r \in Slots :
    \/ \E c \in Clients : FetchBegin(r, c, NoToken) /\ Observe(TRUE)
    \/ \E s \in {2, 15} : BodyParsed(r, FALSE, MkBody(<<s>>, FALSE)) /\ Observe(TRUE)
    \/ HashDone(r, 1) /\ Observe(TRUE)
    \/ PutDone(r, 1) /\ Observe(TRUE)
    \/ PutFail(r, 1) /\ Observe(TRUE)
    \/ Resume(r, 1) /\ Observe(TRUE)

SpecRace == Init /\ [][NextRace]_vars

\* Two requests in flight at once, of three callers under two session keys,
\* each a single get_experience or leave_message call
NextKeys ==
  \E r \in Slots :
    \/ \E c \in KeyClients, t \in {NoToken, "tokIntent", "tokGarbled"} :
         FetchBegin(r, c, t) /\ Observe(FALSE)
    \/ \E s \in {1, 2} : BodyParsed(r, FALSE, MkBody(<<s>>, FALSE)) /\ Observe(FALSE)
    \/ HashDone(r, 1) /\ Observe(FALSE)
    \/ PutDone(r, 1) /\ Observe(FALSE)
    \/ PutFail(r, 1) /\ Observe(FALSE)
    \/ Resume(r, 1) /\ Observe(FALSE)

SpecKeys == Init /\ [][NextKeys]_vars

\* Requests on both routes one after another: tool calls with or without a
\* credential, undecodable bodies, direct submissions; each answer logged
NextRest ==
  \/ \E c \in Clients, t \in {NoToken, "tokIntent"} : FetchBegin("r1", c, t) /\ Observe(TRUE)
  \/ BodyMalformed("r1") /\ Observe(TRUE)
  \/ \E s \in {1, 2} : BodyParsed("r1", FALSE, MkBody(<<s>>, FALSE)) /\ Observe(TRUE)
  \/ HashDone("r1", 1) /\ Observe(TRUE)
  \/ PutDone("r1", 1) /\ Observe(TRUE)
  \/ PutFail("r1", 1) /\ Observe(TRUE)
  \/ Resume("r1", 1) /\ Observe(TRUE)
  \/ \E c \in Clients : RestBegin("r1", c) /\ Observe(TRUE)
  \/ RestBodyMalformed("r1") /\ Observe(TRUE)
  \/ \E b \in RestBodies : RestBody("r1", b) /\ Observe(TRUE)
  \/ RestHashDone("r1") /\ Observe(TRUE)
  \/ RestPutDone("r1") /\ Observe(TRUE)
  \/ RestPutFail("r1") /\ Observe(TRUE)

SpecRest == Init /\ [][NextRest]_vars

\* The arguments a get_projects and a get_writing call may carry
TagInputs == {"", "ai", "AI", "web", "Web", "rust"}

ProjectQueries ==
  {EmptyObj} \cup {[tag |-> t] : t \in TagInputs}
    \cup {[featured_only |-> b] : b \in BOOLEAN}
    \cup {[tag |-> t, featured_only |-> b] : t \in TagInputs, b \in BOOLEAN}

PlatformInputs == {"", "blog", "dev"}

WritingQueries ==
  {EmptyObj} \cup {[limit |-> n] : n \in -1..MaxLimit}
    \cup {[platform |-> pl] : pl \in PlatformInputs}
    \cup {[platform |-> pl, limit |-> n] : pl \in PlatformInputs, n \in -1..MaxLimit}

QueryBody(name, arguments) ==
  <<[id |-> 1, method |-> "tools/call", name |-> name, arguments |-> arguments]>>

\* A deployment built with any of the profile stores, asked for projects and writing
InitQuery ==
  /\ sessionCache = EmptyObj
  /\ guestbook = <<>>
  /\ kvBound \in BOOLEAN
  /\ req = [r \in Slots |-> Idle]
  /\ delivered = NoDelivery
  /\ history = <<>>
  /\ profileData \in ProfileStores

NextQuery ==
  \/ \E c \in Clients : FetchBegin("r1", c, NoToken) /\ Observe(FALSE)
  \/ \E a \in ProjectQueries :
       BodyParsed("r1", FALSE, QueryBody("get_projects", a)) /\ Observe(FALSE)
  \/ \E a \in WritingQueries :
       BodyParsed("r1", FALSE, QueryBody("get_writing", a)) /\ Observe(FALSE)

SpecQuery == InitQuery /\ [][NextQuery]_vars

(***************************************************************************)
(* What the properties below look at.                                      *)
(***************************************************************************)
\* the requests in view: those in the slots and the one just answered
Views ==
  [v \in 1..3 |-> CASE v = 1 -> req["r1"]
                    [] v = 2 -> req["r2"]
                    [] v = 3 -> IF delivered.sent THEN delivered ELSE Idle]

Live(v) == IF v = 3 THEN delivered.sent ELSE Views[v].pc # "idle"

ViewTasks == {<<v, i>> \in (1..3) \X (1..(MaxBatch + 1)) : i <= Len(Views[v].tasks)}

TaskAt(vi) == Views[vi[1]].tasks[vi[2]]

GatedNames == {"get_experience", "get_skills"}
FreeNames == {"get_profile", "get_projects", "get_writing", "leave_message"}

IsCallOf(rpc, names) == rpc.method = "tools/call" /\ rpc.name \in names

IsToolError(res) ==
  res.tag = "result" /\ "isError" \in DOMAIN res.result /\ res.result.isError

\* the denial payload of handleToolCall, as the caller receives it
IsDenial(res) ==
  IsToolError(res) /\ "gated_tool" \in DOMAIN res.result.content

IsToolSuccess(res) ==
  res.tag = "result" /\ "content" \in DOMAIN res.result
    /\ "isError" \notin DOMAIN res.result

SessionOf(cur) == sessionCache[getSessionKey(cur.client)]

\* the calls dispatched by the step that parses the body of slot r
Dispatches(r) == req[r].pc = "json" /\ req'[r].pc # "json"
Dispatched(r) == IF req'[r].pc = "run" THEN req'[r].tasks ELSE delivered'.tasks

(***************************************************************************)
(* C1: a Gated tool called by a session without access is answered with    *)
(* the denial payload, no executor runs for it, and the step that          *)
(* evaluates it changes neither the guestbook nor any session.             *)
(***************************************************************************)
C1_DeniedCalls ==
  \A vi \in ViewTasks :
    (IsCallOf(TaskAt(vi).rpc, GatedNames) /\ ~TaskAt(vi).acc) =>
      /\ TaskAt(vi).st = "done"
      /\ IsDenial(TaskAt(vi).res)
      /\ TaskAt(vi).exec = "none"
      /\ TaskAt(vi).puts = 0

C1_DenyingStep ==
  \A r \in Slots :
    (Dispatches(r) /\ ~SessionOf(req[r]).hasAccess) =>
      \A i \in 1..Len(Dispatched(r)) :
        IsCallOf(Dispatched(r)[i].rpc, GatedNames) =>
          /\ Dispatched(r)[i].st = "done"
          /\ IsDenial(Dispatched(r)[i].res)
          /\ Dispatched(r)[i].exec = "none"
          /\ guestbook' = guestbook
          /\ sessionCache' = sessionCache

C1_GatedDenied == [](C1_DeniedCalls) /\ [][C1_DenyingStep]_vars

C1_Witness ==
  /\ delivered.sent /\ ~delivered.batch /\ Len(delivered.tasks) = 1
  /\ IsCallOf(delivered.tasks[1].rpc, {"get_skills"})
  /\ ~SessionOf(delivered).hasAccess
  /\ IsDenial(delivered.out[1])

(***************************************************************************)
(* C2 as stated: a leave_message call with valid name and message always   *)
(* appends exactly one guestbook entry, sets has_access and returns a      *)
(* success payload.                                                        *)
(***************************************************************************)
ValidLeave(rpc) ==
  /\ IsLeave(rpc)
  /\ Has(rpc.arguments, "name") /\ rpc.arguments.name # ""
  /\ Has(rpc.arguments, "message") /\ rpc.arguments.message # ""

IsLeaveSuccess(res) ==
  /\ IsToolSuccess(res)
  /\ "success" \in DOMAIN res.result.content
  /\ res.result.content.success /\ res.result.content.access_granted

C2_AlwaysOneEntry ==
  \A vi \in ViewTasks :
    (ValidLeave(TaskAt(vi).rpc) /\ TaskAt(vi).st \in {"done", "rejected"}) =>
      /\ TaskAt(vi).st = "done"
      /\ IsLeaveSuccess(TaskAt(vi).res)
      /\ TaskAt(vi).puts = 1
      /\ SessionOf(Views[vi[1]]).hasAccess

(***************************************************************************)
(* C2, amended: a leave_message call with valid name and message that      *)
(* returns has set has_access, returns a success payload, and has appended *)
(* exactly one entry when a guestbook store is bound (none when none is    *)
(* bound); it fails only when the store's put fails, and then has appended *)
(* nothing.  The guestbook holds one entry per call that put one, in the   *)
(* order of the calls, so two calls leave two entries of their own and     *)
(* has_access true.                                                        *)
(***************************************************************************)
ExpectedEntry(view, task) ==
  [name |-> task.rpc.arguments.name, message |-> task.rpc.arguments.message,
   ip_hash |-> <<"sha256", view.client.ip, "resume-mcp-salt">>]

\* the entries put by the answered requests of the log, then by the request in flight
RECURSIVE LoggedEntries(_)
LoggedEntries(log) ==
  IF Len(log) = 0 THEN <<>>
  ELSE LET last == log[Len(log)]
       IN LoggedEntries(SubSeq(log, 1, Len(log) - 1)) \o
            (IF Len(last.tasks) = 1 /\ last.tasks[1].puts = 1
               THEN <<ExpectedEntry(last, last.tasks[1])>> ELSE <<>>)

InFlightEntries ==
  IF Len(req["r1"].tasks) = 1 /\ req["r1"].tasks[1].puts = 1
    THEN <<ExpectedEntry(req["r1"], req["r1"].tasks[1])>> ELSE <<>>

C2_LeaveMessage ==
  /\ \A vi \in ViewTasks :
       ValidLeave(TaskAt(vi).rpc) =>
         /\ TaskAt(vi).st = "done" =>
              /\ IsLeaveSuccess(TaskAt(vi).res)
              /\ TaskAt(vi).puts = (IF kvBound THEN 1 ELSE 0)
              /\ SessionOf(Views[vi[1]]).hasAccess
         /\ TaskAt(vi).st = "rejected" => (kvBound /\ TaskAt(vi).puts = 0)
  /\ \A i \in 1..Len(history) :
       (history[i].status = 200 /\ Len(history[i].tasks) = 1
          /\ IsLeave(history[i].tasks[1].rpc)) =>
         /\ IsLeaveSuccess(history[i].out[1])
         /\ SessionOf(history[i]).hasAccess
  /\ guestbook = LoggedEntries(history) \o InFlightEntries

\* the same caller has left two messages: two entries, has_access true
C2_Witness ==
  /\ Len(history) = 2 /\ history[1].client = history[2].client
  /\ \A i \in 1..2 : /\ Len(history[i].tasks) = 1
                      /\ ValidLeave(history[i].tasks[1].rpc)
                      /\ IsLeaveSuccess(history[i].out[1])
  /\ Len(guestbook) = 2 /\ guestbook[1].name = "Ada" /\ guestbook[2].name = "Bob"
  /\ SessionOf(history[1]).hasAccess

(***************************************************************************)
(* C3: a request whose credential decodes to an intent has has_access set  *)
(* before its body is parsed, so every call of that request, single or     *)
(* batched, reads has_access = true and no Gated call of it is denied.     *)
(***************************************************************************)
C3_GrantedAtBegin ==
  \A v \in 1..3 :
    (Live(v) /\ Views[v].token = "tokIntent") =>
      /\ SessionOf(Views[v]).hasAccess
      /\ \A i \in 1..Len(Views[v].tasks) :
           /\ Views[v].tasks[i].acc
           /\ IsCallOf(Views[v].tasks[i].rpc, GatedNames) =>
                /\ Views[v].tasks[i].st = "done"
                /\ IsToolSuccess(Views[v].tasks[i].res)
                /\ Views[v].tasks[i].exec # "none"

\* the step that reads the credential: the session is granted before the body is awaited
C3_CredentialStep ==
  \A r \in Slots :
    (req[r].pc = "idle" /\ req'[r].pc = "json" /\ req'[r].token = "tokIntent") =>
      sessionCache'[getSessionKey(req'[r].client)].hasAccess

C3_CredentialFirst == [](C3_GrantedAtBegin) /\ [][C3_CredentialStep]_vars

\* a fresh caller's batch with a credential: both Gated calls answered with data
C3_Witness ==
  /\ delivered.sent /\ delivered.batch /\ Len(delivered.tasks) = 2
  /\ delivered.token = "tokIntent"
  /\ SessionOf(delivered).agentToken = "tokIntent"
  /\ \A i \in 1..2 : /\ IsCallOf(delivered.tasks[i].rpc, GatedNames)
                      /\ IsToolSuccess(delivered.out[i])

(***************************************************************************)
(* C4: a credential that does not decode, or decodes without an intent,    *)
(* leaves the sessions as a request without credential leaves them, the    *)
(* request is answered without any error owed to the credential, and a     *)
(* Gated call from a session without access is still denied.               *)
(***************************************************************************)
BadTokens == {"tokGarbled", "tokNoIntent"}

\* the session map after fetch has looked the caller up and read no credential
AfterLookup(client) ==
  LET key == getSessionKey(client)
  IN (key :> (IF key \in DOMAIN sessionCache THEN sessionCache[key]
              ELSE [hasAccess |-> FALSE, agentToken |-> NoToken])) @@ sessionCache

C4_BadCredentialStep ==
  \A r \in Slots :
    (req[r].pc = "idle" /\ req'[r].pc = "json" /\ req'[r].token \in BadTokens) =>
      sessionCache' = AfterLookup(req'[r].client)

C4_AsWithoutCredential ==
  \A v \in 1..3 :
    (Live(v) /\ Views[v].token \in BadTokens) =>
      /\ \A i \in 1..Len(Views[v].tasks) :
           (IsCallOf(Views[v].tasks[i].rpc, GatedNames) /\ ~Views[v].tasks[i].acc) =>
             IsDenial(Views[v].tasks[i].res)
      /\ (v = 3 /\ delivered.status = 400) =>
           (delivered.tasks = <<>> \/ Rejected(delivered.tasks))
      /\ (v = 3 /\ delivered.status = 200) =>
           \A i \in 1..Len(delivered.out) :
             delivered.out[i] =
               handleJsonRpc(delivered.tasks[i].rpc,
                             [hasAccess |-> delivered.tasks[i].acc,
                              agentToken |-> NoToken]).res
             \/ IsLeave(delivered.tasks[i].rpc)

C5_GrantedSessionFrozen ==
  [][\A k \in DOMAIN sessionCache :
       sessionCache[k].hasAccess =>
         (k \in DOMAIN sessionCache' /\ sessionCache'[k] = sessionCache[k])]_vars

(***************************************************************************)
(* C5, amended: once has_access is true for a key, no step of any request, *)
(* concurrent or not, makes it false or removes the session; granting an   *)
(* already-granted session changes nothing but, for a credential grant,    *)
(* the token the session stores.                                           *)
(***************************************************************************)
C5_AccessMonotonic ==
  [][\A k \in DOMAIN sessionCache :
       sessionCache[k].hasAccess =>
         /\ k \in DOMAIN sessionCache'
         /\ sessionCache'[k].hasAccess
         /\ (sessionCache'[k] # sessionCache[k]) =>
              \E r \in Slots :
                /\ req[r].pc = "idle" /\ req'[r].pc = "json"
                /\ getSessionKey(req'[r].client) = k
                /\ req'[r].token = "tokIntent"
                /\ sessionCache'[k] = [sessionCache[k] EXCEPT !.agentToken = "tokIntent"]]_vars

\* two requests of one caller in flight: the first read has_access = false and has
\* since granted it, the second came with a credential that does not decode
C5_Witness ==
  /\ req["r1"].pc = "run" /\ req["r2"].pc = "run"
  /\ req["r1"].client = req["r2"].client
  /\ ~req["r2"].tasks[1].acc
  /\ req["r1"].token = "tokGarbled" /\ req["r1"].tasks[1].acc
  /\ SessionOf(req["r1"]).hasAccess

(***************************************************************************)
(* C6: three requests of one caller, one after another, none with a       *)
(* credential that grants: the fresh caller's get_experience is denied     *)
(* (hint and Free tool list in the payload); its leave_message succeeds;   *)
(* every later get_experience of that caller is answered with the          *)
(* experience data.                                                        *)
(***************************************************************************)
IsSingleCall(item, names) ==
  /\ item.status = 200 /\ ~item.batch /\ Len(item.tasks) = 1
  /\ IsCallOf(item.tasks[1].rpc, names)

FirstOfCaller(i) == \A j \in 1..(i - 1) : history[j].client # history[i].client

C6_DeniedThenGranted ==
  /\ \A i \in 1..Len(history) :
       (FirstOfCaller(i) /\ IsSingleCall(history[i], {"get_experience"})) =>
         /\ IsDenial(history[i].out[1])
         /\ "hint" \in DOMAIN history[i].out[1].result.content
         /\ \A n \in FreeNames :
              Includes(history[i].out[1].result.content.free_tools, n)
  /\ \A i \in 1..Len(history) : \A j \in (i + 1)..Len(history) :
       (/\ history[i].client = history[j].client
        /\ IsSingleCall(history[i], {"leave_message"})
        /\ IsSingleCall(history[j], {"get_experience"})) =>
         /\ IsLeaveSuccess(history[i].out[1])
         /\ IsToolSuccess(history[j].out[1])
         /\ history[j].out[1].result.content = profileData.experience

C6_Witness ==
  /\ Len(history) = 3
  /\ \A i \in 1..3 : history[i].client = history[1].client /\ history[i].token = NoToken
  /\ IsSingleCall(history[1], {"get_experience"}) /\ IsDenial(history[1].out[1])
  /\ IsSingleCall(history[2], {"leave_message"}) /\ IsLeaveSuccess(history[2].out[1])
  /\ IsSingleCall(history[3], {"get_experience"}) /\ IsToolSuccess(history[3].out[1])

(***************************************************************************)
(* C7: FREE_TOOLS and GATED_TOOLS partition the catalog: every catalog     *)
(* name is in exactly one of them, and every name in either is a catalog   *)
(* name; so is every catalog tool a request calls.                         *)
(***************************************************************************)
C7_TiersPartitionCatalog ==
  /\ \A i \in 1..Len(TOOLS) :
       Includes(FREE_TOOLS, TOOLS[i].name) # Includes(GATED_TOOLS, TOOLS[i].name)
  /\ \A i \in 1..Len(FREE_TOOLS) : \E j \in 1..Len(TOOLS) : TOOLS[j].name = FREE_TOOLS[i]
  /\ \A i \in 1..Len(GATED_TOOLS) : \E j \in 1..Len(TOOLS) : TOOLS[j].name = GATED_TOOLS[i]
  /\ \A vi \in ViewTasks :
       (TaskAt(vi).rpc.method = "tools/call" /\ TaskAt(vi).rpc.name \in ToolNames) =>
         Includes(FREE_TOOLS, TaskAt(vi).rpc.name) # Includes(GATED_TOOLS, TaskAt(vi).rpc.name)

\* a batch that calls one tool of each tier from a session without access: the
\* Free one is answered with data, the Gated one with the denial
C7_Witness ==
  /\ delivered.sent /\ delivered.batch /\ Len(delivered.tasks) = 2
  /\ \E i, j \in 1..2 :
       /\ Includes(FREE_TOOLS, delivered.tasks[i].rpc.name)
       /\ IsToolSuccess(delivered.out[i])
       /\ Includes(GATED_TOOLS, delivered.tasks[j].rpc.name)
       /\ IsDenial(delivered.out[j])

(***************************************************************************)
(* C8: a tools/call of a catalog tool is permitted (its executor is        *)
(* called, and it is not answered with the denial) exactly when the tool   *)
(* is Free or the session's has_access is true.                            *)
(***************************************************************************)
C8_PermittedIffFreeOrAccess ==
  \A vi \in ViewTasks :
    IsCallOf(TaskAt(vi).rpc, FreeNames \cup GatedNames) =>
      LET permitted == TaskAt(vi).rpc.name \in FreeNames \/ TaskAt(vi).acc
      IN /\ (TaskAt(vi).exec # "none") <=> permitted
         /\ (TaskAt(vi).st = "done") =>
              /\ IsDenial(TaskAt(vi).res) <=> ~permitted
              /\ IsToolSuccess(TaskAt(vi).res) <=> permitted

\* a session with access: a batch of a Gated and a Free call, both answered with data
C8_Witness ==
  /\ delivered.sent /\ delivered.batch /\ Len(delivered.tasks) = 2
  /\ delivered.token = NoToken
  /\ IsCallOf(delivered.tasks[1].rpc, {"get_experience"})
  /\ delivered.tasks[1].acc /\ IsToolSuccess(delivered.out[1])
  /\ IsCallOf(delivered.tasks[2].rpc, {"get_profile"})
  /\ IsToolSuccess(delivered.out[2])

(***************************************************************************)
(* C9: a denied tools/call is answered with a result member and no error   *)
(* member, and its payload signals access_required and carries a hint and  *)
(* the list of Free tool names.                                            *)
(***************************************************************************)
\* README, "The Toll": "error": "access_required"; or the message or the code
\* that handleToolCall gives the denial
SignalsAccessRequired(payload) ==
  \/ "error" \in DOMAIN payload /\ payload.error = "access_required"
  \/ "message" \in DOMAIN payload /\ payload.message = "Access required"
  \/ "code" \in DOMAIN payload /\ payload.code = -32001

C9_DenialPayload ==
  \A vi \in ViewTasks :
    (IsCallOf(TaskAt(vi).rpc, GatedNames) /\ ~TaskAt(vi).acc) =>
      /\ TaskAt(vi).res.tag = "result"
      /\ "hint" \in DOMAIN TaskAt(vi).res.result.content
      /\ "free_tools" \in DOMAIN TaskAt(vi).res.result.content
      /\ \A n \in FreeNames : Includes(TaskAt(vi).res.result.content.free_tools, n)
      /\ SignalsAccessRequired(TaskAt(vi).res.result.content)

(***************************************************************************)
(* C10: a tools/call of a name that is not in the catalog is answered with *)
(* a fault of the method-not-found class (-32601) on that call, and no     *)
(* executor runs.                                                          *)
(***************************************************************************)
C10_UnknownToolFault ==
  \A vi \in ViewTasks :
    (TaskAt(vi).rpc.method = "tools/call"
       /\ TaskAt(vi).rpc.name \notin FreeNames \cup GatedNames) =>
      /\ TaskAt(vi).st = "done"
      /\ TaskAt(vi).exec = "none"
      /\ TaskAt(vi).res.tag = "error"
      /\ TaskAt(vi).res.error.code = -32601

(***************************************************************************)
(* C11: a tools/call of leave_message whose name or message is missing or  *)
(* empty is answered with a fault on that call before any executor runs:   *)
(* no executor is called, no guestbook entry is appended and the call      *)
(* grants no access.                                                       *)
(***************************************************************************)
C11_RequiredFields ==
  \A vi \in ViewTasks :
    (IsLeave(TaskAt(vi).rpc) /\ ~ValidLeave(TaskAt(vi).rpc)) =>
      /\ TaskAt(vi).st = "done"
      /\ TaskAt(vi).exec = "none"
      /\ TaskAt(vi).res.tag = "error" \/ IsToolError(TaskAt(vi).res)
      /\ TaskAt(vi).puts = 0
      /\ (Len(Views[vi[1]].tasks) = 1 /\ ~TaskAt(vi).acc) =>
           ~SessionOf(Views[vi[1]]).hasAccess

(***************************************************************************)
(* C12: in a batch with an entry that calls an unknown tool, whose other   *)
(* entries are calls that do not fail themselves, the unknown entry is     *)
(* answered with a fault under its own id, every other entry is answered   *)
(* under its own id with the payload it gets when sent alone, and the      *)
(* request is answered 200 with one response per entry.                    *)
(***************************************************************************)
UnknownCall(rpc) ==
  rpc.method = "tools/call" /\ rpc.name \notin FreeNames \cup GatedNames

\* the payload of a call that a session with has_access = acc sends alone
NormalPayload(task, res) ==
  /\ IsCallOf(task.rpc, {"get_profile"}) =>
       IsToolSuccess(res) /\ res.result.content = profileData.profile
  /\ IsCallOf(task.rpc, {"get_experience"}) =>
       IF task.acc
         THEN IsToolSuccess(res) /\ res.result.content = profileData.experience
         ELSE IsDenial(res) /\ res.result.content.gated_tool = "get_experience"
  /\ IsLeave(task.rpc) => IsLeaveSuccess(res)

C12_BatchIsolation ==
  \A v \in 1..3 :
    LET tasks == Views[v].tasks
        n == Len(tasks)
    IN (/\ Live(v) /\ Views[v].batch
        /\ \E i \in 1..n : UnknownCall(tasks[i].rpc)
        /\ \A i \in 1..n : tasks[i].st # "rejected") =>
         /\ \A i \in 1..n :
              IF UnknownCall(tasks[i].rpc)
                THEN /\ tasks[i].st = "done" /\ tasks[i].exec = "none"
                     /\ IsToolError(tasks[i].res) /\ ~IsDenial(tasks[i].res)
                     /\ tasks[i].res.id = tasks[i].rpc.id
                ELSE /\ ~IsLeave(tasks[i].rpc) => tasks[i].st = "done"
                     /\ tasks[i].st = "done" =>
                          /\ tasks[i].res.id = tasks[i].rpc.id
                          /\ ~IsToolError(tasks[i].res) \/ IsDenial(tasks[i].res)
                          /\ NormalPayload(tasks[i], tasks[i].res)
         /\ v = 3 =>
              /\ delivered.status = 200
              /\ Len(delivered.out) = n
              /\ \A i \in 1..n :
                   /\ delivered.out[i].id = tasks[i].rpc.id
                   /\ UnknownCall(tasks[i].rpc) <=>
                        (IsToolError(delivered.out[i]) /\ ~IsDenial(delivered.out[i]))
                   /\ ~UnknownCall(tasks[i].rpc) => NormalPayload(tasks[i], delivered.out[i])

\* a batch [get_profile, no_such_tool] with ids 2 and 1: data under 2, the fault under 1
C12_Witness ==
  /\ delivered.sent /\ delivered.batch /\ delivered.status = 200
  /\ Len(delivered.out) = 2
  /\ IsCallOf(delivered.tasks[1].rpc, {"get_profile"})
  /\ delivered.out[1].id = 2 /\ IsToolSuccess(delivered.out[1])
  /\ UnknownCall(delivered.tasks[2].rpc)
  /\ delivered.out[2].id = 1 /\ IsToolError(delivered.out[2])

(***************************************************************************)
(* C13: when the guestbook store fails for one leave_message entry of a    *)
(* batch, the request is still answered with one response per entry: a     *)
(* fault for that entry, and for every sibling the response of its own     *)
(* call under its own id.                                                  *)
(***************************************************************************)
C13_StoreFailureContained ==
  (/\ delivered.sent /\ delivered.batch /\ Len(delivered.tasks) > 1
   /\ \E i \in 1..Len(delivered.tasks) : delivered.tasks[i].st = "rejected") =>
    /\ delivered.status = 200
    /\ Len(delivered.out) = Len(delivered.tasks)
    /\ \A i \in 1..Len(delivered.tasks) :
         /\ delivered.out[i].id = delivered.tasks[i].rpc.id
         /\ IF delivered.tasks[i].st = "rejected"
              THEN delivered.out[i].tag = "error" \/ IsToolError(delivered.out[i])
              ELSE delivered.out[i] = delivered.tasks[i].res

(***************************************************************************)
(* C14: the answer to a batch of n entries is a list of n responses, the   *)
(* i-th of them the response of the i-th entry's call under that entry's   *)
(* id, in whatever order the entries' calls completed.                     *)
(***************************************************************************)
C14_BatchOrder ==
  (delivered.sent /\ delivered.batch) =>
    /\ Len(delivered.out) = Len(delivered.tasks)
    /\ \A i \in 1..Len(delivered.tasks) :
         /\ delivered.tasks[i].st = "done"
         /\ delivered.out[i] = delivered.tasks[i].res
         /\ delivered.out[i].id = delivered.tasks[i].rpc.id

(***************************************************************************)
(* C15: every response handleJsonRpc returns (a result, a denial, an       *)
(* unknown-tool or unknown-method fault) carries the id of the entry it    *)
(* answers, and so does the response the caller receives in its place.     *)
(***************************************************************************)
C15_ResponseIds ==
  /\ \A vi \in ViewTasks :
       TaskAt(vi).st = "done" =>
         /\ TaskAt(vi).res.tag \in {"result", "error"}
         /\ TaskAt(vi).res.id = TaskAt(vi).rpc.id
  /\ (delivered.sent /\ delivered.status = 200) =>
       /\ Len(delivered.out) = Len(delivered.tasks)
       /\ \A i \in 1..Len(delivered.out) :
            delivered.out[i].id = delivered.tasks[i].rpc.id

\* a batch with ids 2 and 1: the denial carries 2, the data carries 1
C15_Witness ==
  /\ delivered.sent /\ delivered.batch /\ delivered.status = 200
  /\ Len(delivered.out) = 2
  /\ delivered.tasks[1].rpc.id = 2 /\ delivered.tasks[2].rpc.id = 1
  /\ IsDenial(delivered.out[1]) /\ delivered.out[1].id = 2
  /\ IsLeaveSuccess(delivered.out[2]) /\ delivered.out[2].id = 1

(***************************************************************************)
(* C16: a request whose body request.json() cannot decode is answered at   *)
(* once with status 400 and the one fault of code -32700; no entry of it   *)
(* is dispatched, so no executor runs, and the step changes neither the    *)
(* guestbook nor any session.                                              *)
(***************************************************************************)
C16_Faulted ==
  (delivered.sent /\ delivered.body = "threw") =>
    /\ delivered.status = 400
    /\ Len(delivered.out) = 1
    /\ delivered.out[1].tag = "error"
    /\ delivered.out[1].error.code = -32700
    /\ delivered.out[1].id = NullId
    /\ delivered.tasks = <<>>

C16_FaultingStep ==
  \A r \in Slots :
    (req[r].pc = "json" /\ delivered'.sent /\ delivered'.body = "threw") =>
      /\ req'[r].pc = "idle"
      /\ guestbook' = guestbook
      /\ sessionCache' = sessionCache

C16_ParseError == [](C16_Faulted) /\ [][C16_FaultingStep]_vars

\* a caller with a credential and an undecodable body: the fault, and the grant stays
C16_Witness ==
  /\ delivered.sent /\ delivered.body = "threw" /\ delivered.status = 400
  /\ delivered.out[1].error.code = -32700
  /\ delivered.token = "tokIntent"
  /\ guestbook = <<>>

(***************************************************************************)
(* C17: get_projects(tag = X) returns the entries of get_projects(), in    *)
(* store order, that have a tag equal to X up to the case of letters, and  *)
(* no others.                                                              *)
(***************************************************************************)
IsQueryOf(name) ==
  /\ delivered.sent /\ delivered.status = 200 /\ Len(delivered.tasks) = 1
  /\ IsCallOf(delivered.tasks[1].rpc, {name})
  /\ IsToolSuccess(delivered.out[1])

QueryArgs == delivered.tasks[1].rpc.arguments

C17_TagFilter ==
  (/\ IsQueryOf("get_projects")
   /\ Has(QueryArgs, "tag") /\ QueryArgs.tag # ""
   /\ ~Has(QueryArgs, "featured_only")) =>
    LET hasTag(p) == \E k \in 1..Len(p.tags) :
                       toLowerCase(p.tags[k]) = toLowerCase(QueryArgs.tag)
    IN delivered.out[1].result.content = SelectSeq(getProjects(EmptyObj), hasTag)

(***************************************************************************)
(* C18 as stated: get_writing(limit = N) returns the first N entries of    *)
(* get_writing() in the same order, or all of them when fewer than N       *)
(* exist.                                                                  *)
(***************************************************************************)
\* the first n entries of arr, all of them when it has fewer
FirstN(arr, n) == [i \in 1..(IF n < Len(arr) THEN n ELSE Len(arr)) |-> arr[i]]

\* the call's arguments without its limit
Unlimited(arguments) ==
  IF Has(arguments, "platform") THEN [platform |-> arguments.platform] ELSE EmptyObj

C18_FirstN ==
  (/\ IsQueryOf("get_writing")
   /\ Has(QueryArgs, "limit") /\ QueryArgs.limit >= 0) =>
    delivered.out[1].result.content =
      FirstN(getWriting(Unlimited(QueryArgs)), QueryArgs.limit)

(***************************************************************************)
(* C18, amended: for an integer N >= 1, get_writing(limit = N) returns the *)
(* first N entries of get_writing() in the same order, or all of them when *)
(* fewer than N exist (with a platform argument: of get_writing with that  *)
(* platform); a limit of 0 or less is ignored and all entries are returned.*)
(***************************************************************************)
C18_Limit ==
  (IsQueryOf("get_writing") /\ Has(QueryArgs, "limit")) =>
    delivered.out[1].result.content =
      IF QueryArgs.limit >= 1
        THEN FirstN(getWriting(Unlimited(QueryArgs)), QueryArgs.limit)
        ELSE getWriting(Unlimited(QueryArgs))

\* a store of two entries on two platforms, asked for one entry of the second platform
C18_Witness ==
  /\ IsQueryOf("get_writing")
  /\ Len(profileData.writing) = 2
  /\ profileData.writing[1].platform = "blog" /\ profileData.writing[2].platform = "dev"
  /\ QueryArgs = [platform |-> "dev", limit |-> 1]
  /\ delivered.out[1].result.content = <<profileData.writing[2]>>

(***************************************************************************)
(* C19 as stated: two leave_message calls of the same caller in concurrent *)
(* requests each append an entry of their own, under every interleaving,   *)
(* and leave the session with has_access = true.                           *)
(***************************************************************************)
\* the calls of the answered requests of the log and of the requests in flight
RaceCalls ==
  {<<"log", i>> : i \in {j \in 1..Len(history) : Len(history[j].tasks) = 1}}
    \cup {<<r, 0>> : r \in {q \in Slots : Len(req[q].tasks) = 1}}

CallView(c) == IF c[1] = "log" THEN history[c[2]] ELSE req[c[1]]
CallTask(c) == CallView(c).tasks[1]

Finished(task) == task.st \in {"done", "rejected"}

\* two calls that both read has_access = false were dispatched before either
\* granted it: their requests overlap

C19_TwoEntries ==
  \A c, d \in RaceCalls :
    (/\ c # d /\ CallView(c).client = CallView(d).client
     /\ ValidLeave(CallTask(c).rpc) /\ ValidLeave(CallTask(d).rpc)
     /\ ~CallTask(c).acc /\ ~CallTask(d).acc
     /\ Finished(CallTask(c)) /\ Finished(CallTask(d))) =>
      /\ CallTask(c).puts = 1 /\ CallTask(d).puts = 1
      /\ Len(guestbook) >= 2
      /\ SessionOf(CallView(c)).hasAccess

(***************************************************************************)
(* C19, amended: under every interleaving of concurrent requests, each     *)
(* leave_message call that returns has appended an entry of its own when a *)
(* guestbook store is bound (none when none is bound) and has left the     *)
(* session with has_access = true; a call whose put fails appends nothing; *)
(* the guestbook holds exactly the entries of the calls that put one, as   *)
(* often as they were put: none is deduplicated or overwritten.            *)
(***************************************************************************)
Occurrences(entry) ==
  Cardinality({i \in 1..Len(guestbook) : guestbook[i] = entry})

PutBy(entry) ==
  {c \in RaceCalls : /\ CallTask(c).puts = 1
                     /\ ExpectedEntry(CallView(c), CallTask(c)) = entry}

C19_ConcurrentLeaves ==
  /\ \A c \in RaceCalls :
       ValidLeave(CallTask(c).rpc) =>
         /\ CallTask(c).st = "done" =>
              /\ IsLeaveSuccess(CallTask(c).res)
              /\ CallTask(c).puts = (IF kvBound THEN 1 ELSE 0)
              /\ SessionOf(CallView(c)).hasAccess
         /\ CallTask(c).st = "rejected" => CallTask(c).puts = 0
  /\ Len(guestbook) = Cardinality({c \in RaceCalls : CallTask(c).puts = 1})
  /\ \A c \in RaceCalls :
       LET entry == ExpectedEntry(CallView(c), CallTask(c))
       IN Occurrences(entry) = Cardinality(PutBy(entry))

\* two requests of one caller with the same name and message overlap: the one that
\* put second is answered first, the other has put and not yet resumed
C19_Witness ==
  /\ Len(history) = 1 /\ Len(history[1].tasks) = 1
  /\ IsLeaveSuccess(history[1].out[1])
  /\ \E r \in Slots :
       /\ req[r].pc = "run" /\ req[r].client = history[1].client
       /\ req[r].tasks[1].st = "ret" /\ req[r].tasks[1].puts = 1
       /\ req[r].tasks[1].rpc.arguments = history[1].tasks[1].rpc.arguments
  /\ Len(guestbook) = 2 /\ guestbook[1] = guestbook[2]
  /\ SessionOf(history[1]).hasAccess

(***************************************************************************)
(* C20: in a batch of a caller that has no access when the batch is        *)
(* dispatched and sent no credential that grants, every Gated call is      *)
(* denied, also one that follows a leave_message entry of the same batch   *)
(* and also once that leave_message has set has_access: every entry read   *)
(* has_access before any leave_message of the batch granted it.            *)
(***************************************************************************)
C20_DeniedInSameBatch ==
  \A v \in 1..3 :
    LET tasks == Views[v].tasks
    IN (/\ Live(v) /\ Views[v].batch /\ Len(tasks) > 0
        /\ Views[v].token # "tokIntent"
        /\ ~tasks[1].acc) =>
         \A j \in 1..Len(tasks) :
           /\ ~tasks[j].acc
           /\ IsCallOf(tasks[j].rpc, GatedNames) =>
                /\ tasks[j].st = "done"
                /\ tasks[j].exec = "none"
                /\ IsDenial(tasks[j].res)
                /\ (v = 3 /\ delivered.status = 200) => IsDenial(delivered.out[j])

\* the batch [leave_message, get_experience] of a fresh caller: the message is
\* taken, the session has access, and get_experience is answered with the denial
C20_Witness ==
  /\ delivered.sent /\ delivered.batch /\ delivered.status = 200
  /\ delivered.token = NoToken
  /\ Len(delivered.out) = 2
  /\ IsLeave(delivered.tasks[1].rpc) /\ IsLeaveSuccess(delivered.out[1])
  /\ IsCallOf(delivered.tasks[2].rpc, {"get_experience"})
  /\ IsDenial(delivered.out[2])
  /\ SessionOf(delivered).hasAccess

(***************************************************************************)
(* C21: a step changes the has_access of a session only when it reads a    *)
(* credential that decodes to an intent or completes a leave_message call, *)
(* and changes the guestbook only in a leave_message call; the step that   *)
(* dispatches a request's entries (initialize, notifications/initialized,  *)
(* ping, tools/list, unknown methods and tools, denied Gated calls, the    *)
(* read-only tools) changes neither.                                       *)
(***************************************************************************)
\* has_access of the key k, false while no session is stored under it
HasAccess(cache, k) == k \in DOMAIN cache /\ cache[k].hasAccess

SessionKeys == {<<c.ip, c.ua.head>> : c \in KeyClients}

\* the step in which slot r reads a credential that grants
CredentialGrant(r) ==
  req[r].pc = "idle" /\ req'[r].pc = "json" /\ req'[r].token = "tokIntent"

\* the step in which a leave_message call of slot r, suspended in state st, goes on
LeaveStep(r, st) ==
  /\ req[r].pc = "run"
  /\ \E i \in 1..Len(req[r].tasks) :
       /\ req[r].tasks[i].st = st /\ IsLeave(req[r].tasks[i].rpc)
       /\ req'[r].pc = "idle" \/ req'[r].tasks[i].st # st

C21_FrameStep ==
  /\ (\E k \in SessionKeys : HasAccess(sessionCache', k) # HasAccess(sessionCache, k)) =>
       \E r \in Slots : CredentialGrant(r) \/ LeaveStep(r, "ret")
  /\ (guestbook' # guestbook) => \E r \in Slots : LeaveStep(r, "put")
  /\ \A r \in Slots :
       Dispatches(r) => (sessionCache' = sessionCache /\ guestbook' = guestbook)

C21_Frame == [][C21_FrameStep]_vars

\* a caller without access has been answered a batch of a read-only call and an
\* unknown tool: no session has access and the guestbook is empty
C21_Witness ==
  /\ delivered.sent /\ delivered.batch /\ delivered.status = 200
  /\ Len(delivered.tasks) = 2
  /\ IsCallOf(delivered.tasks[1].rpc, {"get_profile"})
  /\ UnknownCall(delivered.tasks[2].rpc)
  /\ \A k \in SessionKeys : ~HasAccess(sessionCache, k)
  /\ guestbook = <<>>

(***************************************************************************)
(* C22: a step of a request whose Caller Identity Key is K creates or      *)
(* changes the session stored under K and no other, and has_access of a    *)
(* key becomes true only in a step of a request with that key that reads a *)
(* credential decoding to an intent or completes a leave_message call.     *)
(***************************************************************************)
\* the Caller Identity Key: the address and the first 50 characters of the User-Agent
KeyOf(client) == <<client.ip, client.ua.head>>

\* slot r takes the step, for the caller StepClient(r)
Acts(r) == req'[r] # req[r]
StepClient(r) == IF req[r].pc = "idle" THEN req'[r].client ELSE req[r].client

Touched(k) ==
  \/ k \notin DOMAIN sessionCache
  \/ k \notin DOMAIN sessionCache'
  \/ sessionCache'[k] # sessionCache[k]

C22_IsolationStep ==
  \A k \in (DOMAIN sessionCache) \cup (DOMAIN sessionCache') :
    Touched(k) =>
      \E r \in Slots :
        /\ Acts(r) /\ KeyOf(StepClient(r)) = k
        /\ (HasAccess(sessionCache', k) /\ ~HasAccess(sessionCache, k)) =>
             (CredentialGrant(r) \/ LeaveStep(r, "ret"))

C22_SessionIsolation == [][C22_IsolationStep]_vars

\* one key has been granted access by a credential, and a caller under the other
\* key, served meanwhile, is answered with the denial
C22_Witness ==
  /\ delivered.sent /\ delivered.status = 200 /\ delivered.token = NoToken
  /\ KeyOf(delivered.client) = <<"ip1", "uaB">>
  /\ IsCallOf(delivered.tasks[1].rpc, {"get_experience"})
  /\ IsDenial(delivered.out[1])
  /\ HasAccess(sessionCache, <<"ip1", "uaA">>)
  /\ ~HasAccess(sessionCache, <<"ip1", "uaB">>)
  /\ \E r \in Slots : req[r].pc = "run" /\ req[r].client.ua.tail = "/2.0"

(***************************************************************************)
(* C23 as stated: a successful direct submission (POST /api/guestbook)     *)
(* appends a guestbook entry and reports access_granted = true, yet        *)
(* changes no session: a caller who has used only that route is denied     *)
(* the Gated tools on a later tools/call.                                  *)
(***************************************************************************)
IsRest(item) == item.route = "rest"

RestSuccess(item) ==
  /\ IsRest(item) /\ item.status = 200
  /\ item.out[1].result.success /\ item.out[1].result.access_granted

OnlyRestBefore(j) ==
  /\ \A i \in 1..(j - 1) :
       KeyOf(history[i].client) = KeyOf(history[j].client) => IsRest(history[i])
  /\ \E i \in 1..(j - 1) :
       KeyOf(history[i].client) = KeyOf(history[j].client) /\ RestSuccess(history[i])

\* the Gated call of a caller that has so far submitted directly only is denied
StillDenied ==
  \A j \in 1..Len(history) :
    (/\ IsSingleCall(history[j], {"get_experience"})
     /\ history[j].token = NoToken
     /\ OnlyRestBefore(j)) =>
      IsDenial(history[j].out[1])

\* no session is stored under a key whose requests were all direct submissions
NoSessionByRest ==
  \A k \in SessionKeys :
    (/\ \A i \in 1..Len(history) : KeyOf(history[i].client) = k => IsRest(history[i])
     /\ ~(req["r1"].pc # "idle" /\ req["r1"].route = "mcp"
            /\ KeyOf(req["r1"].client) = k)) =>
      k \notin DOMAIN sessionCache

C23_DirectSubmission ==
  /\ \A i \in 1..Len(history) :
       (IsRest(history[i]) /\ history[i].status = 200) =>
         /\ RestSuccess(history[i])
         /\ history[i].tasks[1].puts = 1
         /\ \E n \in 1..Len(guestbook) :
              guestbook[n] = ExpectedEntry(history[i], history[i].tasks[1])
  /\ NoSessionByRest
  /\ StillDenied

(***************************************************************************)
(* C23, amended: a successful direct submission reports access_granted =   *)
(* true and appends a guestbook entry when a guestbook store is bound      *)
(* (none when none is bound), and changes no session: a caller who has     *)
(* used only that route is denied the Gated tools on a later tools/call.   *)
(***************************************************************************)
C23_DirectSubmissionStore ==
  /\ \A i \in 1..Len(history) :
       (IsRest(history[i]) /\ history[i].status = 200) =>
         /\ RestSuccess(history[i])
         /\ history[i].tasks[1].puts = (IF kvBound THEN 1 ELSE 0)
         /\ kvBound =>
              \E n \in 1..Len(guestbook) :
                guestbook[n] = ExpectedEntry(history[i], history[i].tasks[1])
  /\ NoSessionByRest
  /\ StillDenied

\* a caller submits directly, is told access_granted, then calls get_experience
C23_Witness ==
  /\ Len(history) = 2 /\ history[1].client = history[2].client
  /\ RestSuccess(history[1]) /\ Len(guestbook) = 1
  /\ IsSingleCall(history[2], {"get_experience"}) /\ history[2].token = NoToken
  /\ IsDenial(history[2].out[1])
  /\ ~HasAccess(sessionCache, KeyOf(history[2].client))

(***************************************************************************)
(* C24: while no leave_message call of a request has returned to           *)
(* handleToolCall and been resumed, the caller's has_access is what it was *)
(* when the request's entries were dispatched; so it is when the store's   *)
(* put has failed and the request has been answered with the fault.        *)
(***************************************************************************)
NoLeaveResumed(tasks) ==
  \A i \in 1..Len(tasks) : IsLeave(tasks[i].rpc) => tasks[i].st # "done"

C24_NoGrantOnFailure ==
  \A v \in {1, 3} :
    (Live(v) /\ Len(Views[v].tasks) > 0 /\ NoLeaveResumed(Views[v].tasks)) =>
      /\ HasAccess(sessionCache, KeyOf(Views[v].client)) = Views[v].tasks[1].acc
      /\ \A i \in 1..Len(Views[v].tasks) :
           Views[v].tasks[i].st = "rejected" => Views[v].tasks[i].puts = 0

\* a fresh caller's leave_message whose put failed: answered 400, still no access
C24_Witness ==
  /\ delivered.sent /\ delivered.status = 400 /\ Len(delivered.tasks) = 1
  /\ IsLeave(delivered.tasks[1].rpc) /\ delivered.tasks[1].st = "rejected"
  /\ ~delivered.tasks[1].acc
  /\ ~HasAccess(sessionCache, KeyOf(delivered.client))
  /\ guestbook = <<>>

(***************************************************************************)
(* C25: the credential is verified before the body is decoded: a request   *)
(* with a valid credential of sufficient intent and an undecodable body is *)
(* answered with the parse-error fault, the caller's has_access is true    *)
(* afterwards, and every later request with the same Caller Identity Key   *)
(* is dispatched with access, whatever credential it carries.              *)
(***************************************************************************)
GrantedThenThrew(j) ==
  /\ history[j].route = "mcp" /\ history[j].token = "tokIntent"
  /\ history[j].body = "threw"

C25_CredentialBeforeBody ==
  \A j \in 1..Len(history) :
    GrantedThenThrew(j) =>
      /\ history[j].status = 400
      /\ history[j].out = <<ErrorResponse(NullId, [code |-> -32700, message |-> "Parse error"])>>
      /\ HasAccess(sessionCache, KeyOf(history[j].client))
      /\ \A k \in (j + 1)..Len(history) :
           ( /\ history[k].route = "mcp" /\ history[k].body = "parsed"
             /\ KeyOf(history[k].client) = KeyOf(history[j].client) ) =>
             /\ history[k].tasks[1].acc
             /\ ~IsDenial(history[k].out[1])

\* the fault, then the same caller without a credential is served a Gated tool
C25_Witness ==
  /\ Len(history) >= 2
  /\ GrantedThenThrew(1) /\ history[1].status = 400
  /\ history[2].route = "mcp" /\ history[2].token = NoToken
  /\ history[2].client = history[1].client
  /\ history[2].body = "parsed" /\ history[2].status = 200
  /\ IsCallOf(history[2].tasks[1].rpc, GatedNames)
  /\ IsToolSuccess(history[2].out[1])

====
